---- MODULE Spec2Model ----
(***************************************************************************)
(* Five-point stencil relaxation: the serial baseline, the cache-optimized *)
(* program and the std::thread build of the parallel program               *)
(* (parallel_openmp.cpp compiled without -fopenmp, the Makefile's          *)
(* parallel_threads target).                                               *)
(*                                                                         *)
(* Numbers.  A double is modelled as an integer count of 1/Scale.  Scale   *)
(* carries three binary digits per time step, so every "* 0.25", "/ 4.",   *)
(* "* 0.5" and "/ 2." of a run of at most MaxNt steps is exact, as scaling *)
(* by a power of two is in binary floating point.  The rounding of the     *)
(* additions is not modelled; the three programs add in the same order.    *)
(* Buffers are functions on the flat index i*ny + j (the serial baseline's *)
(* vi[i][j] is cell i*ny + j).                                             *)
(***************************************************************************)
EXTENDS Integers, Sequences, FiniteSets, TLC

\* ---------------------------------------------------------------- bounds
MaxNx == 4
MaxNy == 4
MaxNt == 2
MaxW == 3
MaxPartNx == 9
MaxPartW == 6
MaxRowK == 31

\* ------------------------------------------------------------- variables
VARIABLES
    prog,      \* which program runs: "serial", "cache" or "threads"
    nx, ny, nt, \* argv[1..3] after atoi
    hw,        \* std::thread::hardware_concurrency(), at least 1
    sinkOk,    \* whether ofstream fout("data_out") opens
    pc,        \* main thread's position
    t,         \* time-step loop counter
    vi, vr,    \* current and next buffers
    fout,      \* records inserted into the stream fout, in order
    cout,      \* step indices printed to the console
    scan,      \* cells the diagnostic scan of this step has visited
    tid,       \* loop counter of the spawn and join loops
    threads,   \* interior workers of this step
    threads2,  \* relaxation workers of this step
    oob,       \* a buffer was accessed outside [0, nx*ny)
    acc,       \* per worker: the buffer cells read and written this step
    relaxed,   \* per cell: how often this step's relaxation wrote it
    row, sq,   \* initialisation of one row: the row and i_sq per program
    pnx, pw, ptid, cover  \* partitioner alone: rows, workers, loop, row hits

vars == <<prog, nx, ny, nt, hw, sinkOk, pc, t, vi, vr, fout, cout, scan, tid,
          threads, threads2, oob, acc, relaxed, row, sq, pnx, pw, ptid, cover>>

runVars == <<prog, nx, ny, nt, hw, sinkOk, pc, t, vi, vr, fout, cout, scan,
             tid, threads, threads2, oob, acc, relaxed>>
ghostVars == <<acc, relaxed>>
rowVars == <<row, sq>>
partVars == <<pnx, pw, ptid, cover>>

Progs == {"serial", "cache", "threads"}

\* ------------------------------------------------------------ arithmetic
Scale == 1000 * 8^MaxNt

Abs(x) == IF x < 0 THEN -x ELSE x
Max(a, b) == IF a > b THEN a ELSE b
Min(a, b) == IF a < b THEN a ELSE b

Quarter(x) == x \div 4
Half(x) == x \div 2

Top == 10 * Scale
Bottom == 5 * Scale
Left == (1545 * Scale) \div 100
Right == (670 * Scale) \div 100
Threshold == Scale \div 100

\* sin(pi / n * i) for 0 <= i < n, in 1/Scale, by Bhaskara's rational
\* approximation 16 i (n - i) / (5 n^2 - 4 i (n - i)).
SinFix(i, n) ==
    ((16000 * i * (n - i)) \div (5 * n * n - 4 * i * (n - i))) * 8^MaxNt

\* ------------------------------------------------ i * i, int and double
\* A square that may pass 2^31 is held as hi * 2^16 + lo, 0 <= lo < 2^16.
WideSquare(i) ==
    LET a == i \div 256
        b == i % 256
        mid == 2 * a * b
        low == b * b + (mid % 256) * 256
    IN  [hi |-> a * a + (mid \div 256) + (low \div 2^16), lo |-> low % 2^16]

FitsInt(w) == w.hi < 2^15

\* "i * i" on int operands: the product when it fits; signed overflow is
\* undefined behaviour, the build keeps the low 32 bits (imul) or the
\* exact value (a widened multiply).
IntSquare(i) ==
    LET w == WideSquare(i)
    IN  IF FitsInt(w) THEN {w}
        ELSE {[hi |-> w.hi - 2^16, lo |-> w.lo], w}

\* "1.0 * i * i": exact in a double for every int i below 2^16.
DoubleSquare(i) == {WideSquare(i)}

SquareOf(p, i) == IF p = "threads" THEN DoubleSquare(i) ELSE IntSquare(i)

WideVal(w) == w.hi * 2^16 + w.lo

\* ------------------------------------------------------------ the grid
Idx(i, j) == i * ny + j
Total == nx * ny
Cells == 0 .. (Total - 1)
RowOf(k) == k \div ny
ColOf(k) == k % ny

\* vi[i*ny + j] = i_sq * j * i_factor; vr = 0.  (Rows of the model's grids
\* are far below the int overflow of i * i, so i_sq is the one outcome.)
InitCell(p, i, j) ==
    WideVal(CHOOSE w \in SquareOf(p, i) : TRUE) * j * SinFix(i, nx)

InitVi(p) == [k \in Cells |-> InitCell(p, RowOf(k), ColOf(k))]
InitVr == [k \in Cells |-> 0]

\* ------------------------------------------------------- stencil kernel
\* (vi[(i+1)*ny+j] + vi[(i-1)*ny+j] + vi[i*ny+(j-1)] + vi[i*ny+(j+1)]) * 0.25
StencilCell(v, i, j) ==
    Quarter(v[Idx(i + 1, j)] + v[Idx(i - 1, j)] + v[Idx(i, j - 1)] + v[Idx(i, j + 1)])

IsInterior(i, j) == i >= 1 /\ i < nx - 1 /\ j >= 1 /\ j < ny - 1

\* for (i = 1; i < nx-1; ++i) for (j = 1; j < ny-1; ++j) vr[i*ny+j] = ...
InteriorLoop(v, r) ==
    [k \in Cells |->
        IF IsInterior(RowOf(k), ColOf(k)) THEN StencilCell(v, RowOf(k), ColOf(k))
        ELSE r[k]]

\* ------------------------------------------------------ boundary loops
\* A read at flat index k; outside the buffer it yields g, whatever the
\* memory there holds.
Rd(v, k, g) == IF k \in DOMAIN v THEN v[k] ELSE g

\* Mutant: the top row relaxed toward the bottom edge's constant.
TopCellWrongConstant(v, j, g) ==
    Quarter(Rd(v, 1 * ny + j, g) + Bottom + Rd(v, 0 * ny + (j - 1), g)
            + Rd(v, 0 * ny + (j + 1), g))

\* vr[0*ny+j] = (vi[1*ny+j] + 10.0 + vi[0*ny+(j-1)] + vi[0*ny+(j+1)]) * quarter
TopCell(v, j, g) ==
    Quarter(Rd(v, 1 * ny + j, g) + Top + Rd(v, 0 * ny + (j - 1), g)
            + Rd(v, 0 * ny + (j + 1), g))

\* vr[(nx-1)*ny+j] = (5.0 + vi[(nx-2)*ny+j] + vi[(nx-1)*ny+(j-1)] + vi[(nx-1)*ny+(j+1)]) * quarter
BottomCell(v, j, g) ==
    Quarter(Bottom + Rd(v, (nx - 2) * ny + j, g) + Rd(v, (nx - 1) * ny + (j - 1), g)
            + Rd(v, (nx - 1) * ny + (j + 1), g))

\* vr[i*ny+0] = (vi[(i+1)*ny+0] + vi[(i-1)*ny+0] + 15.45 + vi[i*ny+1]) * quarter
LeftCell(v, i, g) ==
    Quarter(Rd(v, (i + 1) * ny + 0, g) + Rd(v, (i - 1) * ny + 0, g) + Left
            + Rd(v, i * ny + 1, g))

\* vr[i*ny+(ny-1)] = (vi[(i+1)*ny+(ny-1)] + vi[(i-1)*ny+(ny-1)] + vi[i*ny+(ny-2)] - 6.7) * quarter
RightCell(v, i, g) ==
    Quarter(Rd(v, (i + 1) * ny + (ny - 1), g) + Rd(v, (i - 1) * ny + (ny - 1), g)
            + Rd(v, i * ny + (ny - 2), g) - Right)

\* for (j = 1; j < ny-1; ++j) { top row; bottom row }
RECURSIVE RowLoop(_, _, _, _)
RowLoop(v, r, j, g) ==
    IF j < ny - 1
    THEN LET r1 == [r EXCEPT ![0 * ny + j] = TopCell(v, j, g)]
             r2 == [r1 EXCEPT ![(nx - 1) * ny + j] = BottomCell(v, j, g)]
         IN  RowLoop(v, r2, j + 1, g)
    ELSE r

\* for (i = 1; i < nx-1; ++i) { left column; right column }
RECURSIVE ColLoop(_, _, _, _)
ColLoop(v, r, i, g) ==
    IF i < nx - 1
    THEN LET r1 == [r EXCEPT ![i * ny + 0] = LeftCell(v, i, g)]
             r2 == [r1 EXCEPT ![i * ny + (ny - 1)] = RightCell(v, i, g)]
         IN  ColLoop(v, r2, i + 1, g)
    ELSE r

\* Mutant: the row loop starts at column 0 and so writes a corner.
BoundaryLoopsFromZero(v, r, g) == ColLoop(v, RowLoop(v, r, 0, g), 1, g)

BoundaryLoops(v, r, g) == ColLoop(v, RowLoop(v, r, 1, g), 1, g)

\* The flat indices the two boundary loops read from vi and write in vr.
BoundaryAccesses ==
    UNION {{1 * ny + j, 0 * ny + (j - 1), 0 * ny + (j + 1), 0 * ny + j,
            (nx - 2) * ny + j, (nx - 1) * ny + (j - 1), (nx - 1) * ny + (j + 1),
            (nx - 1) * ny + j} : j \in 1 .. (ny - 2)}
    \cup
    UNION {{(i + 1) * ny + 0, (i - 1) * ny + 0, i * ny + 1, i * ny + 0,
            (i + 1) * ny + (ny - 1), (i - 1) * ny + (ny - 1), i * ny + (ny - 2),
            i * ny + (ny - 1)} : i \in 1 .. (nx - 2)}

BoundaryInBounds == \A k \in BoundaryAccesses : k >= 0 /\ k < Total

\* What an out-of-bounds read may yield.
Garbage == {0, Scale}

\* ------------------------------------------- serial baseline, one step
\* The if / else-if chain of the merged update loop; a cell no branch
\* takes keeps its value.
SerialCell(v, r, i, j) ==
    IF i > 0 /\ i < nx - 1 /\ j > 0 /\ j < ny - 1
    THEN (v[Idx(i + 1, j)] + v[Idx(i - 1, j)] + v[Idx(i, j - 1)] + v[Idx(i, j + 1)]) \div 4
    ELSE IF i = 0 /\ i < nx - 1 /\ j > 0 /\ j < ny - 1
    THEN (v[Idx(i + 1, j)] + Top + v[Idx(i, j - 1)] + v[Idx(i, j + 1)]) \div 4
    ELSE IF i > 0 /\ i = nx - 1 /\ j > 0 /\ j < ny - 1
    THEN (Bottom + v[Idx(i - 1, j)] + v[Idx(i, j - 1)] + v[Idx(i, j + 1)]) \div 4
    ELSE IF i > 0 /\ i < nx - 1 /\ j = 0 /\ j < ny - 1
    THEN (v[Idx(i + 1, j)] + v[Idx(i - 1, j)] + Left + v[Idx(i, j + 1)]) \div 4
    ELSE IF i > 0 /\ i < nx - 1 /\ j > 0 /\ j = ny - 1
    THEN (v[Idx(i + 1, j)] + v[Idx(i - 1, j)] + v[Idx(i, j - 1)] - Right) \div 4
    ELSE r[Idx(i, j)]

SerialUpdateLoop(v, r) == [k \in Cells |-> SerialCell(v, r, RowOf(k), ColOf(k))]

\* vi[i][j] = vi[i][j]/2. + vr[i][j]/2.
SerialRelaxCell(a, b) == (a \div 2) + (b \div 2)

\* vi[i] = (vi[i] + vr[i]) * half
RelaxCell(a, b) == Half(a + b)

\* ------------------------------------------------------ diagnostic scan
\* Mutant: the outer fabs is missing.
DiagCondSigned(a, b) == Abs(b) - Abs(a) < Threshold

\* fabs(fabs(vr[k]) - fabs(vi[k])) < 1e-2
DiagCond(a, b) == Abs(Abs(b) - Abs(a)) < Threshold

\* Mutant: the column is written before the row.
RecordSwapped(s, k, a, b) == <<s, ColOf(k), RowOf(k), Abs(a), Abs(b)>>

\* fout << t << i << j << fabs(vi[k]) << fabs(vr[k])
Record(s, k, a, b) == <<s, RowOf(k), ColOf(k), Abs(a), Abs(b)>>

\* -------------------------------------------------------- partitioner
\* int rows = nx - 2; int chunk = max(1, rows / num_threads);
\* (C++ division truncates toward zero.)
TruncDiv(a, b) == IF a >= 0 THEN a \div b ELSE -((-a) \div b)
Chunk(n, w) == Max(1, TruncDiv(n - 2, w))
IBegin(n, w, k) == 1 + k * Chunk(n, w)
\* Mutant: the last worker does not absorb the remainder.
IEndNoRemainder(n, w, k) == Min(n - 1, IBegin(n, w, k) + Chunk(n, w))

IEnd(n, w, k) ==
    IF k = w - 1 THEN n - 1 ELSE Min(n - 1, IBegin(n, w, k) + Chunk(n, w))

\* stencil_update_block's loop bounds: max(1, i_begin) and min(nx-1, i_end)
ClipLo(b) == Max(1, b)
ClipHi(n, e) == Min(n - 1, e)
BlockRows(n, w, k) ==
    {r \in ClipLo(IBegin(n, w, k)) .. (ClipHi(n, IEnd(n, w, k)) - 1) : TRUE}

\* int block = max(1, total / num_threads2);
Block(tot, w) == Max(1, tot \div w)
RBeginOverlap(tot, w, k) == Max(0, k * Block(tot, w) - 1)
RBegin(tot, w, k) == k * Block(tot, w)
REnd(tot, w, k) ==
    IF k = w - 1 THEN tot ELSE Min(tot, RBegin(tot, w, k) + Block(tot, w))

\* ---------------------------------------------------------- the run
NoThread == [st |-> "none", i |-> 0, j |-> 0, hi |-> 0]
NoThread2 == [st |-> "none", k |-> 0, end |-> 0]
Tids == 0 .. (hw - 1)
\* Accesses are pairs <<buffer, flat index>>; ird, iwr are those of the
\* interior worker, rrd, rwr those of the relaxation worker.
StencilReads(i, j) ==
    {<<"current", Idx(i - 1, j)>>, <<"current", Idx(i + 1, j)>>,
     <<"current", Idx(i, j - 1)>>, <<"current", Idx(i, j + 1)>>}
NoAcc == [ird |-> {}, iwr |-> {}, rrd |-> {}, rwr |-> {}]

RowIdle == row = 0 /\ sq = [p \in Progs |-> <<>>]
PartIdle == pnx = 3 /\ pw = 1 /\ ptid = 0 /\ cover = <<>>

\* The state after argument parsing, allocation and the initialisation
\* loop, before "data_out" is opened.
Init ==
    /\ prog \in Progs
    /\ nx \in 1 .. MaxNx
    /\ ny \in 1 .. MaxNy
    /\ nt \in 0 .. MaxNt
    /\ hw \in (IF prog = "threads" THEN 1 .. MaxW ELSE {1})
    /\ sinkOk \in BOOLEAN
    /\ pc = "open"
    /\ t = 0
    /\ vi = InitVi(prog)
    /\ vr = InitVr
    /\ fout = <<>>
    /\ cout = <<>>
    /\ scan = 0
    /\ tid = 0
    /\ threads = [k \in Tids |-> NoThread]
    /\ threads2 = [k \in Tids |-> NoThread2]
    /\ oob = FALSE
    /\ acc = [k \in Tids |-> NoAcc]
    /\ relaxed = [k \in Cells |-> 0]
    /\ RowIdle
    /\ PartIdle

\* ofstream fout("data_out"); if (!fout) return 1;  -- the serial baseline
\* opens the stream and never tests it.
OpenSink ==
    /\ pc = "open"
    /\ pc' = IF sinkOk \/ prog = "serial" THEN "loop" ELSE "failed"
    /\ UNCHANGED <<rowVars, partVars, ghostVars, prog, nx, ny, nt, hw, sinkOk, t, vi, vr, fout, cout, scan,
                   tid, threads, threads2, oob>>

FirstPhase ==
    IF prog = "serial" THEN "update"
    ELSE IF prog = "cache" THEN "interior" ELSE "spawn"

\* for (t = 0; t < nt; ++t) { cout << "\n" << t; ...   -- the vectors of
\* threads are locals of the loop body, fresh in every iteration.
\* Mutant: the loop runs one step too many.
LoopCondInclusive == t <= nt

LoopCond == t < nt
LoopHead ==
    /\ pc = "loop"
    /\ IF LoopCond
       THEN /\ cout' = Append(cout, t)
            /\ pc' = FirstPhase
            /\ scan' = 0
            /\ tid' = 0
            /\ threads' = [k \in Tids |-> NoThread]
            /\ threads2' = [k \in Tids |-> NoThread2]
            /\ acc' = [k \in Tids |-> NoAcc]
            /\ relaxed' = [k \in Cells |-> 0]
       ELSE /\ pc' = "done"
            /\ UNCHANGED <<cout, scan, tid, threads, threads2, acc, relaxed>>
    /\ UNCHANGED <<rowVars, partVars, prog, nx, ny, nt, hw, sinkOk, t, vi, vr, fout, oob>>

\* serial baseline: the merged interior / boundary loop
SerialUpdate ==
    /\ pc = "update"
    /\ vr' = SerialUpdateLoop(vi, vr)
    /\ pc' = "diag"
    /\ UNCHANGED <<rowVars, partVars, ghostVars, prog, nx, ny, nt, hw, sinkOk, t, vi, fout, cout, scan, tid,
                   threads, threads2, oob>>

\* cache-optimized: the interior loop
CacheInterior ==
    /\ pc = "interior"
    /\ vr' = InteriorLoop(vi, vr)
    /\ pc' = "boundary"
    /\ UNCHANGED <<rowVars, partVars, ghostVars, prog, nx, ny, nt, hw, sinkOk, t, vi, fout, cout, scan, tid,
                   threads, threads2, oob>>

\* cache-optimized and threaded: the two boundary loops.  An index outside
\* the buffers is undefined behaviour: the process faults, or the read
\* yields whatever lies there.
Boundary ==
    /\ pc = "boundary"
    /\ IF BoundaryInBounds
       THEN /\ vr' = BoundaryLoops(vi, vr, 0)
            /\ pc' = "diag"
            /\ oob' = oob
       ELSE /\ oob' = TRUE
            /\ \/ (pc' = "crashed" /\ vr' = vr)
               \/ (\E g \in Garbage : vr' = BoundaryLoops(vi, vr, g) /\ pc' = "diag")
    /\ UNCHANGED <<rowVars, partVars, ghostVars, prog, nx, ny, nt, hw, sinkOk, t, vi, fout, cout, scan, tid,
                   threads, threads2>>

\* What data_out holds: a stream that failed to open discards insertions.
DataOut == IF sinkOk THEN fout ELSE <<>>

AfterDiag == IF prog = "threads" THEN "spawn2" ELSE "relax"

\* One cell of the diagnostic scan: the test and the insertion into fout.
DiagCell ==
    /\ pc = "diag"
    /\ scan < Total
    /\ fout' = IF DiagCond(vi[scan], vr[scan])
               THEN Append(fout, Record(t, scan, vi[scan], vr[scan]))
               ELSE fout
    /\ scan' = scan + 1
    /\ pc' = IF scan + 1 = Total THEN AfterDiag ELSE "diag"
    /\ UNCHANGED <<rowVars, partVars, ghostVars, prog, nx, ny, nt, hw, sinkOk, t, vi, vr, cout, tid, threads,
                   threads2, oob>>

\* serial baseline and cache-optimized: the relaxation loop, then ++t
Relax ==
    /\ pc = "relax"
    /\ vi' = [k \in Cells |->
                IF prog = "serial" THEN SerialRelaxCell(vi[k], vr[k])
                ELSE RelaxCell(vi[k], vr[k])]
    /\ t' = t + 1
    /\ pc' = "loop"
    /\ UNCHANGED <<rowVars, partVars, ghostVars, prog, nx, ny, nt, hw, sinkOk, vr, fout, cout, scan, tid,
                   threads, threads2, oob>>

\* ------------------------------------------------- threaded: interior
\* threads.emplace_back(stencil_update_block, ..., i_begin, i_end)
SpawnNext == IF tid = hw - 1 THEN "join" ELSE "spawn"
Spawn ==
    /\ pc = "spawn"
    /\ threads' = [threads EXCEPT ![tid] =
                     [st |-> "running", i |-> ClipLo(IBegin(nx, hw, tid)), j |-> 1,
                      hi |-> ClipHi(nx, IEnd(nx, hw, tid))]]
    /\ tid' = IF tid = hw - 1 THEN 0 ELSE tid + 1
    /\ pc' = SpawnNext
    /\ UNCHANGED <<rowVars, partVars, ghostVars, prog, nx, ny, nt, hw, sinkOk, t, vi, vr, fout, cout, scan,
                   threads2, oob>>

\* one assignment vr[i*ny + j] = ... of stencil_update_block
WorkerCell(w) ==
    /\ threads[w].st = "running"
    /\ threads[w].i < threads[w].hi
    /\ 1 < ny - 1
    /\ vr' = [vr EXCEPT ![Idx(threads[w].i, threads[w].j)] =
                StencilCell(vi, threads[w].i, threads[w].j)]
    /\ threads' = [threads EXCEPT ![w] =
                     IF threads[w].j + 1 < ny - 1
                     THEN [@ EXCEPT !.j = @ + 1]
                     ELSE [@ EXCEPT !.i = @ + 1, !.j = 1]]
    /\ acc' = [acc EXCEPT ![w].ird = @ \cup StencilReads(threads[w].i, threads[w].j),
                          ![w].iwr = @ \cup {<<"next", Idx(threads[w].i, threads[w].j)>>}]
    /\ UNCHANGED <<rowVars, partVars, prog, nx, ny, nt, hw, sinkOk, pc, t, vi, fout, cout, scan,
                   tid, threads2, oob, relaxed>>

\* stencil_update_block returns: no row left (or no interior column)
WorkerExit(w) ==
    /\ threads[w].st = "running"
    /\ (threads[w].i >= threads[w].hi \/ ~(1 < ny - 1))
    /\ threads' = [threads EXCEPT ![w].st = "finished"]
    /\ UNCHANGED <<rowVars, partVars, ghostVars, prog, nx, ny, nt, hw, sinkOk, pc, t, vi, vr, fout, cout,
                   scan, tid, threads2, oob>>

\* for (auto& th : threads) th.join();
JoinReady(w) == threads[w].st = "finished"
\* Mutant: only the first worker is joined.
JoinNextFirstOnly == "boundary"

JoinNext == IF tid = hw - 1 THEN "boundary" ELSE "join"
Join ==
    /\ pc = "join"
    /\ JoinReady(tid)
    /\ threads' = [threads EXCEPT ![tid].st = "joined"]
    /\ tid' = IF tid = hw - 1 THEN 0 ELSE tid + 1
    /\ pc' = JoinNext
    /\ UNCHANGED <<rowVars, partVars, ghostVars, prog, nx, ny, nt, hw, sinkOk, t, vi, vr, fout, cout, scan,
                   threads2, oob>>

\* ----------------------------------------------- threaded: relaxation
\* threads2.emplace_back(avg_block, begin, end)
Spawn2 ==
    /\ pc = "spawn2"
    /\ threads2' = [threads2 EXCEPT ![tid] =
                      [st |-> "running", k |-> RBegin(Total, hw, tid),
                       end |-> REnd(Total, hw, tid)]]
    /\ tid' = IF tid = hw - 1 THEN 0 ELSE tid + 1
    /\ pc' = IF tid = hw - 1 THEN "join2" ELSE "spawn2"
    /\ UNCHANGED <<rowVars, partVars, ghostVars, prog, nx, ny, nt, hw, sinkOk, t, vi, vr, fout, cout, scan,
                   threads, oob>>

\* one assignment vi[k] = (vi[k] + vr[k]) * half of avg_block
RelaxStep(w) ==
    /\ threads2[w].st = "running"
    /\ threads2[w].k < threads2[w].end
    /\ vi' = [vi EXCEPT ![threads2[w].k] = RelaxCell(vi[threads2[w].k], vr[threads2[w].k])]
    /\ threads2' = [threads2 EXCEPT ![w].k = @ + 1]
    /\ acc' = [acc EXCEPT ![w].rrd = @ \cup {<<"current", threads2[w].k>>, <<"next", threads2[w].k>>},
                          ![w].rwr = @ \cup {<<"current", threads2[w].k>>}]
    /\ relaxed' = [relaxed EXCEPT ![threads2[w].k] = @ + 1]
    /\ UNCHANGED <<rowVars, partVars, prog, nx, ny, nt, hw, sinkOk, pc, t, vr, fout, cout, scan,
                   tid, threads, oob>>

RelaxExit(w) ==
    /\ threads2[w].st = "running"
    /\ threads2[w].k >= threads2[w].end
    /\ threads2' = [threads2 EXCEPT ![w].st = "finished"]
    /\ UNCHANGED <<rowVars, partVars, ghostVars, prog, nx, ny, nt, hw, sinkOk, pc, t, vi, vr, fout, cout,
                   scan, tid, threads, oob>>

\* for (auto& th : threads2) th.join();  then ++t
Join2Ready(w) == threads2[w].st = "finished"
Join2 ==
    /\ pc = "join2"
    /\ Join2Ready(tid)
    /\ threads2' = [threads2 EXCEPT ![tid].st = "joined"]
    /\ tid' = IF tid = hw - 1 THEN 0 ELSE tid + 1
    /\ pc' = IF tid = hw - 1 THEN "loop" ELSE "join2"
    /\ t' = IF tid = hw - 1 THEN t + 1 ELSE t
    /\ UNCHANGED <<rowVars, partVars, ghostVars, prog, nx, ny, nt, hw, sinkOk, vi, vr, fout, cout, scan,
                   threads, oob>>

Next ==
    \/ OpenSink
    \/ LoopHead
    \/ SerialUpdate
    \/ CacheInterior
    \/ Boundary
    \/ DiagCell
    \/ Relax
    \/ Spawn
    \/ \E w \in Tids : WorkerCell(w)
    \/ \E w \in Tids : WorkerExit(w)
    \/ Join
    \/ Spawn2
    \/ \E w \in Tids : RelaxStep(w)
    \/ \E w \in Tids : RelaxExit(w)
    \/ Join2

Spec == Init /\ [][Next]_vars

\* Every thread the operating system has started keeps being scheduled.
FairSpec == Spec /\ WF_vars(Next)

\* ------------------------------------------- initialisation of one row
\* The run's variables while only a part of the program is exercised.
RunIdle ==
    /\ prog = "serial" /\ nx = 1 /\ ny = 1 /\ nt = 0 /\ hw = 1 /\ sinkOk = TRUE
    /\ pc = "off" /\ t = 0 /\ vi = <<>> /\ vr = <<>> /\ fout = <<>> /\ cout = <<>>
    /\ scan = 0 /\ tid = 0 /\ threads = <<>> /\ threads2 = <<>> /\ oob = FALSE
    /\ acc = <<>> /\ relaxed = <<>>

\* Rows 0, 2^11, 2 * 2^11, ... of a grid with nx > row (ny = 3 keeps nx*ny
\* far inside int), and the two rows on either side of sqrt(2^31).
RowSamples == {k * 2^11 : k \in 0 .. MaxRowK} \cup {46340, 46341}

RowInit ==
    /\ row \in RowSamples
    /\ sq = [p \in Progs |-> <<>>]
    /\ RunIdle
    /\ PartIdle

\* double i_sq = i * i;  (cache_optimized)   double(i * i)  (serial)
\* double i_sq = 1.0 * i * i;  (parallel)
SquareRow(p) ==
    /\ sq[p] = <<>>
    /\ \E w \in SquareOf(p, row) : sq' = [sq EXCEPT ![p] = w]
    /\ UNCHANGED <<row, runVars, partVars>>

RowNext == \E p \in Progs : SquareRow(p)

RowSpec == RowInit /\ [][RowNext]_vars

\* ------------------------------------------------ the partitioner alone
PartInit ==
    /\ pnx \in 3 .. MaxPartNx
    /\ pw \in 1 .. MaxPartW
    /\ ptid = 0
    /\ cover = [r \in 1 .. (pnx - 2) |-> 0]
    /\ RunIdle
    /\ RowIdle

\* Worker ptid is handed [i_begin, i_end) and stencil_update_block walks
\* the clipped range: every row it updates is counted.
Assign ==
    /\ ptid < pw
    /\ cover' = [r \in DOMAIN cover |->
                   cover[r] + (IF r \in BlockRows(pnx, pw, ptid) THEN 1 ELSE 0)]
    /\ ptid' = ptid + 1
    /\ UNCHANGED <<pnx, pw, runVars, rowVars>>

PartNext == Assign

PartSpec == PartInit /\ [][PartNext]_vars

\* =================================================================
\* Properties
\* =================================================================
Valid == nx > 2 /\ ny > 2
Running == pc # "off"
IsCorner(i, j) == (i = 0 \/ i = nx - 1) /\ (j = 0 \/ j = ny - 1)
CornerCells == {k \in Cells : IsCorner(RowOf(k), ColOf(k))}
AllSquared == \A p \in Progs : sq[p] # <<>>

\* Every halving and quartering of the run so far was exact.
ExactScaling ==
    Running /\ t <= MaxNt =>
        \A k \in Cells :
            /\ pc \notin {"spawn2", "join2"} => vi[k] % (8^(MaxNt - t)) = 0
            /\ (vi[k] * 8) % (8^(MaxNt - t)) = 0
            /\ (vr[k] * 4) % (8^(MaxNt - t)) = 0

\* The records one scan inserts, from cell k on.
RECURSIVE ScanFrom(_, _, _, _)
ScanFrom(s, v, r, k) ==
    IF k >= Total THEN <<>>
    ELSE (IF DiagCond(v[k], r[k]) THEN <<Record(s, k, v[k], r[k])>> ELSE <<>>)
         \o ScanFrom(s, v, r, k + 1)

\* The serial baseline as a function: buffers and records after s steps.
RECURSIVE SerialRun(_)
SerialRun(s) ==
    IF s = 0 THEN <<InitVi("serial"), InitVr, <<>>>>
    ELSE LET prev == SerialRun(s - 1)
             r1 == SerialUpdateLoop(prev[1], prev[2])
         IN  <<[k \in Cells |-> SerialRelaxCell(prev[1][k], r1[k])], r1,
               prev[3] \o ScanFrom(s - 1, prev[1], r1, 0)>>

\* Within the rows whose square fits an int, a finished run of any of the
\* three programs, with any worker count and any interleaving, ends with
\* the serial baseline's buffers and records.
AgreementWithinIntRange ==
    (Running /\ Valid /\ pc = "done") => <<vi, vr, fout>> = SerialRun(nt)

\* C1: for every valid configuration the three programs produce the same
\* records and the same final current buffer.  Already the field the
\* initialisation leaves is stated here: once every program has computed
\* i_sq for a row, the serial baseline's and the cache-optimized program's
\* value equals the threaded program's.
C1_SameFieldInAllPrograms ==
    AllSquared => (sq["serial"] = sq["threads"] /\ sq["cache"] = sq["threads"])

\* The value a neighbour contributes: the cell of v, or the constant of
\* the edge the neighbour falls off.
Above(v, i, j) == IF i = 0 THEN Top ELSE v[(i - 1) * ny + j]
Below(v, i, j) == IF i = nx - 1 THEN Bottom ELSE v[(i + 1) * ny + j]
LeftOf(v, i, j) == IF j = 0 THEN Left ELSE v[i * ny + j - 1]
RightOf(v, i, j) == IF j = ny - 1 THEN -Right ELSE v[i * ny + j + 1]
UpdateDone == Running /\ pc = "diag"

\* C2: after the interior and boundary updates of a step (nx > 2, ny > 2)
\* every non-corner cell of next is a quarter of the sum of its four
\* neighbours in the pre-step current buffer, an off-grid neighbour
\* replaced by its edge constant.
C2_UpdateIsNeighbourAverage ==
    (UpdateDone /\ Valid) =>
        \A k \in Cells \ CornerCells :
            4 * vr[k] = Above(vi, RowOf(k), ColOf(k)) + Below(vi, RowOf(k), ColOf(k))
                        + LeftOf(vi, RowOf(k), ColOf(k)) + RightOf(vi, RowOf(k), ColOf(k))

C2_Witness ==
    /\ UpdateDone /\ Valid /\ prog = "threads" /\ hw > 1 /\ t >= 1
    /\ \E k \in Cells \ CornerCells : vr[k] # 0 /\ IsInterior(RowOf(k), ColOf(k))

\* C3: the clipped row ranges of the W interior workers cover every
\* interior row of [1, nx-1) exactly once (no row is updated twice while
\* the ranges are handed out, none is left out when all are).
C3_PartitionCoversOnce ==
    /\ \A r \in DOMAIN cover : cover[r] <= 1
    /\ ptid = pw => \A r \in DOMAIN cover : cover[r] = 1

C3_Witness ==
    /\ ptid = pw /\ pw > 1 /\ pw < pnx - 2 /\ (pnx - 2) % pw # 0
    /\ \A r \in DOMAIN cover : cover[r] = 1

C3_WitnessMoreWorkersThanRows ==
    /\ ptid = pw /\ pw > pnx - 2
    /\ \A r \in DOMAIN cover : cover[r] = 1

\* C4: no step of the run writes a corner cell of next: across every step
\* each corner keeps the value it held.
C4_CornersNeverWritten ==
    [][Running => \A k \in CornerCells : vr'[k] = vr[k]]_vars

C4_Witness ==
    /\ UpdateDone /\ Valid /\ t >= 1 /\ prog # "serial"
    /\ \A k \in CornerCells : vr[k] = 0
    /\ \E k \in Cells \ CornerCells : ~IsInterior(RowOf(k), ColOf(k)) /\ vr[k] # 0

\* fout's records of step s for cell k.
RecordsOf(s, k) ==
    {m \in 1 .. Len(fout) : fout[m][1] = s /\ fout[m][2] = RowOf(k) /\ fout[m][3] = ColOf(k)}
PreRelax == Running /\ (pc = "relax" \/ (pc = "spawn2" /\ tid = 0))
Scanning == Running /\ (pc = "diag" \/ PreRelax)

\* C5: the scan of step t has emitted a record for a visited cell exactly
\* when | |next| - |current| | < 1e-2 (strictly), on the values before
\* relaxation, the record carries (t, i, j, |current|, |next|), and when
\* the scan ends it has visited all nx*ny cells.
C5_RecordIffBelowThreshold ==
    Scanning =>
        /\ PreRelax => scan = Total
        /\ \A k \in Cells :
             /\ k < scan =>
                  (RecordsOf(t, k) # {}
                     <=> (Abs(vr[k]) - Abs(vi[k]) < Threshold
                          /\ Abs(vi[k]) - Abs(vr[k]) < Threshold))
             /\ k >= scan => RecordsOf(t, k) = {}
             /\ \A m \in RecordsOf(t, k) :
                  fout[m][4] = Abs(vi[k]) /\ fout[m][5] = Abs(vr[k])

C5_Witness ==
    /\ PreRelax /\ sinkOk /\ Valid /\ t >= 1
    /\ \E k \in Cells : RecordsOf(t, k) # {}
    /\ \E k \in Cells : RecordsOf(t, k) = {} /\ Abs(vr[k]) < Abs(vi[k])
    /\ \E k \in Cells : RecordsOf(t, k) = {} /\ Abs(vr[k]) > Abs(vi[k])

LexLess(a, b) ==
    \/ a[1] < b[1]
    \/ (a[1] = b[1] /\ a[2] < b[2])
    \/ (a[1] = b[1] /\ a[2] = b[2] /\ a[3] < b[3])

\* C6: the records written so far are strictly increasing in the
\* lexicographic order of (step, i, j).
C6_RecordsStrictlyIncreasing ==
    Running =>
        \A m, n \in 1 .. Len(fout) : m < n => LexLess(fout[m], fout[n])

C6_Witness ==
    /\ Running /\ prog = "threads" /\ hw > 1 /\ pc = "done"
    /\ \E m, n \in 1 .. Len(fout) :
         /\ m + 1 < n
         /\ fout[m][1] = fout[m + 1][1] /\ fout[m][2] < fout[m + 1][2]
         /\ fout[m][1] < fout[n][1]

\* C7: if the diagnostic destination cannot be opened, the run stops with
\* a failure status before any step: no step is announced, no buffer is
\* changed, no record is produced.
C7_SinkUnavailableAborts ==
    (Running /\ ~sinkOk) =>
        /\ pc \in {"open", "failed"}
        /\ cout = <<>> /\ fout = <<>>
        /\ vi = InitVi(prog) /\ vr = InitVr

\* C8: with an empty interior (nx <= 2 or ny <= 2) no pass of a run that
\* is not rejected accesses a buffer outside [0, nx*ny).
C8_EmptyInteriorStaysInBounds ==
    (Running /\ (nx <= 2 \/ ny <= 2)) => ~oob

StepsSoFar == [m \in 1 .. Len(cout) |-> m - 1]
AllJoined ==
    /\ \A w \in Tids : threads[w].st \in {"none", "joined"}
    /\ \A w \in Tids : threads2[w].st \in {"none", "joined"}
C9_Safe ==
    Running =>
        /\ cout = StepsSoFar
        /\ Len(cout) <= nt
        /\ pc = "done" =>
             /\ Len(cout) = nt /\ t = nt
             /\ AllJoined
             /\ nt = 0 => (vi = InitVi(prog) /\ vr = InitVr /\ fout = <<>>)
\* A run on a valid configuration whose diagnostic destination opened.
Unhindered == Valid /\ sinkOk

\* C9: the driver announces and performs the steps 0, 1, ..., nt-1 in this
\* order and no other, and (on a valid configuration with the sink open)
\* then reaches Finished with every worker thread joined; with nt = 0 it performs none, current is as initialised and no
\* record is written.
C9_RunsNtStepsThenFinishes ==
    /\ []C9_Safe
    /\ Unhindered => <>(pc = "done")

C9_Witness ==
    /\ pc = "done" /\ prog = "threads" /\ hw > 1 /\ nt = MaxNt /\ Valid
    /\ cout = [m \in 1 .. nt |-> m - 1]

C9_WitnessZeroSteps ==
    pc = "done" /\ nt = 0 /\ prog = "threads" /\ Valid /\ vi = InitVi(prog)

InteriorLive(w) == threads[w].st \in {"running", "finished"}
RelaxLive(w) == threads2[w].st \in {"running", "finished"}

\* C10: in the threaded driver no boundary write or diagnostic read
\* happens while an interior worker of the step is unjoined, no relaxation
\* worker exists before the scan has read its last cell, and no interior
\* worker of the next step exists before every relaxation worker has been
\* joined: interior -> join -> boundary -> scan -> relaxation -> join.
C10_PhasesInOrder ==
    (Running /\ prog = "threads") =>
        /\ pc \in {"boundary", "diag", "spawn2", "join2"} =>
             \A w \in Tids : threads[w].st = "joined"
        /\ (\E w \in Tids : RelaxLive(w)) =>
             (scan = Total /\ pc \in {"spawn2", "join2"})
        /\ (\E w \in Tids : InteriorLive(w)) =>
             (pc \in {"spawn", "join"} /\ scan = 0
              /\ \A u \in Tids : threads2[u].st = "none")
        /\ (pc = "loop" /\ t > 0) =>
             \A w \in Tids : threads2[w].st = "joined"
        /\ pc \in {"spawn", "join", "boundary"} => scan = 0

C10_Witness ==
    /\ Running /\ prog = "threads" /\ t >= 1 /\ Valid /\ pc = "join2"
    /\ \E u, w \in Tids : u # w /\ threads2[u].st = "running" /\ threads2[w].st = "running"
                          /\ threads2[u].k > RBegin(Total, hw, u)
                          /\ threads2[w].k > RBegin(Total, hw, w)

\* C12: every partition (i_begin, i_end) the partitioner has handed to a
\* worker is a well-formed half-open row range within the interior:
\* 1 <= i_begin <= i_end <= nx-1.
C12_PartitionsWellFormed ==
    \A k \in 0 .. (ptid - 1) :
        /\ 1 <= IBegin(pnx, pw, k)
        /\ IBegin(pnx, pw, k) <= IEnd(pnx, pw, k)
        /\ IEnd(pnx, pw, k) <= pnx - 1


\* ---------------------------------------------------------- C11
\* the cells of next in worker w's clipped row range
OwnInterior(w) ==
    {<<"next", Idx(i, j)>> : i \in BlockRows(nx, hw, w), j \in 1 .. (ny - 2)}
\* the flat indices [begin, end) handed to relaxation worker w
OwnRange(w) == RBegin(Total, hw, w) .. (REnd(Total, hw, w) - 1)
InteriorRunning(w) == threads[w].st = "running"
RelaxRunning(w) == threads2[w].st = "running"
StepRelaxed == pc \in {"loop", "done"} /\ t > 0

\* C11: no two workers of one phase touch the same buffer cell with one of
\* the accesses a write, and workers of the two phases never run together:
\* an interior worker reads only current and writes only cells of next in
\* its own clipped row range; relaxation worker k reads and writes only
\* flat indices of its own range; no cell is relaxed twice in a step and,
\* once the step's relaxation is joined, every cell was relaxed exactly once.
C11_WorkersNeverConflict ==
    (prog = "threads" /\ Running) =>
        /\ \A u \in Tids : \A w \in Tids \ {u} :
              /\ acc[u].iwr \cap (acc[w].ird \cup acc[w].iwr) = {}
              /\ acc[u].rwr \cap (acc[w].rrd \cup acc[w].rwr) = {}
              /\ ~ (InteriorRunning(u) /\ RelaxRunning(w))
        /\ \A w \in Tids :
              /\ \A a \in acc[w].ird : a[1] = "current"
              /\ acc[w].iwr \subseteq OwnInterior(w)
              /\ \A a \in acc[w].rrd \cup acc[w].rwr : a[2] \in OwnRange(w)
              /\ ~ (InteriorRunning(w) /\ RelaxRunning(w))
        /\ \A k \in Cells : relaxed[k] <= 1
        /\ StepRelaxed => \A k \in Cells : relaxed[k] = 1

\* two workers have each written rows of next and cells of current
C11_Witness ==
    /\ prog = "threads"
    /\ pc = "join2"
    /\ \E u \in Tids : \E w \in Tids \ {u} :
          /\ acc[u].iwr # {} /\ acc[w].iwr # {}
          /\ acc[u].rwr # {} /\ acc[w].rwr # {}

\* more workers than cells: the step's relaxation still covered every cell
C11_WitnessMoreWorkersThanCells ==
    /\ prog = "threads"
    /\ hw > Total
    /\ StepRelaxed
    /\ \A k \in Cells : relaxed[k] = 1

====
